---------------------------- MODULE Spec2Model ----------------------------
(***************************************************************************)
(* Kakeibo budgeting page (src/client/src/KakeiboPage.jsx, and its earlier *)
(* inline-styled copy src/unnamed/part_003): the React component state,    *)
(* the values derived from it on every render, and the event handlers.     *)
(*                                                                         *)
(* Numbers.  JavaScript numbers are modelled as fixed-point decimals with  *)
(* four fractional digits: the integer n stands for n / Unit.  The code's  *)
(* tolerance 0.0001 is therefore the integer 1.  Sums and differences are  *)
(* exact; the one product of the code, totalIncome * p / 100, is computed  *)
(* exactly and truncated to four digits (all texts of the model give an    *)
(* exact result).  Number(text) is a table over the texts of the model.    *)
(*                                                                         *)
(* The Express server of the repository (auth middleware, user routes,     *)
(* Google routes) is modelled further down, with variables of its own and  *)
(* its own specification, ServerSpec; the page makes no request to it.     *)
(***************************************************************************)
EXTENDS Integers, Sequences, FiniteSets, TLC

VARIABLES
    sources,      \* useState: list of {id, name, received, amount}
    mode,         \* useState: "amount" | "percent"
    funds,        \* useState: {ef, sf, spending, fun}, texts
    toast,        \* useState: Null or {type, message}
    doneSummary,  \* useState: Null or the four amounts stored by DONE
    timers,       \* number of pending window.setTimeout hide callbacks
    view,         \* the derived values computed by the last render
    requests,     \* the HTTP requests the server received, each with its
                  \* position in the route's handler chain and its responses
    tokensFile,   \* tokens.json: Null (no such file) or its text
    googleEnv,    \* the three GOOGLE_* variables of process.env are all set
    users         \* the USERS array of userModel.js

pageVars == <<sources, mode, funds, toast, doneSummary, timers, view>>
serverVars == <<requests, tokensFile, googleEnv, users>>
vars == <<sources, mode, funds, toast, doneSummary, timers, view,
          requests, tokensFile, googleEnv, users>>

(***************************************************************************)
(* Bounds of the model.                                                    *)
(***************************************************************************)
MaxSources == 2     \* addSource is taken only while the list is shorter
MaxListLen == 2     \* longest source list given to the engine alone
MaxTimers == 1      \* Spec: a handler that may show a toast is taken only
                    \* while fewer timers pend
MaxPending == 2     \* ToastSpec: the same, with room for a second timer

Null == [null |-> TRUE]

\* the fake in-memory database of userModel.js
USERS ==
    << [id |-> 1, name |-> "Angela", email |-> "angela@example.com"],
       [id |-> 2, name |-> "Miggy", email |-> "miggy@example.com"] >>

\* The server as the page's specifications hold it: the page below makes no
\* request ("local only"), so no request arrives and nothing is stored.
ServerIdle ==
    /\ requests = <<>>
    /\ tokensFile = Null
    /\ googleEnv = TRUE
    /\ users = USERS

FundKeys == {"ef", "sf", "spending", "fun"}
Modes == {"amount", "percent"}

(***************************************************************************)
(* Numbers                                                                 *)
(***************************************************************************)
Unit == 10000
Dec(whole, frac) == whole * Unit + frac

NaN == [finite |-> FALSE, val |-> 0]
Num(n) == [finite |-> TRUE, val |-> n]

\* Number(v) of JavaScript on the texts the model uses: the empty string is
\* 0, a decimal literal is its value, "Infinity" is not finite, any other
\* text is NaN.
Number(v) ==
    CASE v = "" -> Num(0)
      [] v = "0" -> Num(0)
      [] v = "-5" -> Num(Dec(0 - 5, 0))
      [] v = "1" -> Num(Dec(1, 0))
      [] v = "2" -> Num(Dec(2, 0))
      [] v = "3" -> Num(Dec(3, 0))
      [] v = "0.0001" -> Num(Dec(0, 1))
      [] v = "0.0002" -> Num(Dec(0, 2))
      [] v = "20" -> Num(Dec(20, 0))
      [] v = "30" -> Num(Dec(30, 0))
      [] v = "50" -> Num(Dec(50, 0))
      [] v = "60" -> Num(Dec(60, 0))
      [] v = "100" -> Num(Dec(100, 0))
      [] v = "200" -> Num(Dec(200, 0))
      [] v = "300" -> Num(Dec(300, 0))
      [] v = "400" -> Num(Dec(400, 0))
      [] v = "500" -> Num(Dec(500, 0))
      [] v = "1000" -> Num(Dec(1000, 0))
      [] v = "1100" -> Num(Dec(1100, 0))
      [] OTHER -> NaN

\* Mutant: a value that is not finite is not replaced by 0 (it reads as -1).
clampNumberUnchecked(v) ==
    LET n == Number(v)
    IN  IF n.finite THEN n.val ELSE 0 - 1

\* const clampNumber = (v) => { const n = Number(v);
\*                              return Number.isFinite(n) ? n : 0; }
clampNumber(v) ==
    LET n == Number(v)
    IN  IF n.finite THEN n.val ELSE 0

\* (a * p) / 100 on fixed-point operands, without leaving 32-bit integers:
\* with a = aw*Unit + af and p = pw*Unit + pf the exact quotient is
\* aw*pw*Unit/100 + (aw*pf + af*pw)/100 + af*pf/(100*Unit).
MulDiv100(a, p) ==
    LET aw == a \div Unit
        af == a % Unit
        pw == p \div Unit
        pf == p % Unit
        mid == aw * pf + af * pw
    IN  aw * pw * (Unit \div 100)
          + (mid \div 100)
          + (((mid % 100) * Unit + af * pf) \div (100 * Unit))

(***************************************************************************)
(* Derived values (the useMemo blocks of the component)                    *)
(***************************************************************************)
\* Mutant: the received flag is not looked at.
RECURSIVE totalIncomeFromAll(_, _)
totalIncomeFromAll(srcs, sum) ==
    IF srcs = <<>> THEN sum
    ELSE LET amt == clampNumber(Head(srcs).amount)
         IN  totalIncomeFromAll(Tail(srcs), sum + (IF amt > 0 THEN amt ELSE 0))

\* Mutant: a received amount is added whatever its sign.
RECURSIVE totalIncomeFromSigned(_, _)
totalIncomeFromSigned(srcs, sum) ==
    IF srcs = <<>> THEN sum
    ELSE LET s == Head(srcs)
         IN  IF ~s.received
             THEN totalIncomeFromSigned(Tail(srcs), sum)
             ELSE totalIncomeFromSigned(Tail(srcs), sum + clampNumber(s.amount))

\* sources.reduce((sum, s) => { if (!s.received) return sum;
\*     const amt = clampNumber(s.amount); return sum + (amt > 0 ? amt : 0) }, 0)
RECURSIVE totalIncomeFrom(_, _)
totalIncomeFrom(srcs, sum) ==
    IF srcs = <<>> THEN sum
    ELSE LET s == Head(srcs)
             amt == clampNumber(s.amount)
         IN  IF ~s.received
             THEN totalIncomeFrom(Tail(srcs), sum)
             ELSE totalIncomeFrom(Tail(srcs), sum + (IF amt > 0 THEN amt ELSE 0))

totalIncome(srcs) == totalIncomeFrom(srcs, 0)

step1Valid(income) == income > 0

toAmt(p, income) == MulDiv100(income, clampNumber(p))

fundsAsAmount(f, m, income) ==
    IF m = "amount"
    THEN [ef |-> clampNumber(f.ef),
          sf |-> clampNumber(f.sf),
          spending |-> clampNumber(f.spending),
          fun |-> clampNumber(f.fun)]
    ELSE [ef |-> toAmt(f.ef, income),
          sf |-> toAmt(f.sf, income),
          spending |-> toAmt(f.spending, income),
          fun |-> toAmt(f.fun, income)]

\* Mutant: the fun fund is left out of the total.
allocatedTotalWithoutFun(fa) == fa.ef + fa.sf + fa.spending

allocatedTotal(fa) == fa.ef + fa.sf + fa.spending + fa.fun

remaining(income, allocated) == income - allocated

MissingReceivedIncome ==
    "At least 1 source must be marked received with an amount > 0."
NonPositiveSourceAmount(name) ==
    name \o ": amount must be > 0 if received is ON."
Stage2Locked ==
    "Step 2 is locked until Step 1 has a valid total income."
AllocationExceedsIncome ==
    "Allocated total cannot exceed total income."
PercentTotalExceeds100 ==
    "Total percent cannot exceed 100%."

\* Mutant: the loop stops at the first source in error.
RECURSIVE perSourceErrorsFirstOnly(_, _)
perSourceErrorsFirstOnly(srcs, errs) ==
    IF srcs = <<>> THEN errs
    ELSE LET s == Head(srcs)
         IN  IF s.received /\ clampNumber(s.amount) <= 0
             THEN Append(errs, NonPositiveSourceAmount(s.name))
             ELSE perSourceErrorsFirstOnly(Tail(srcs), errs)

\* for (const s of sources)
\*   if (s.received && clampNumber(s.amount) <= 0) errs.push(`${s.name}: ...`)
RECURSIVE perSourceErrors(_, _)
perSourceErrors(srcs, errs) ==
    IF srcs = <<>> THEN errs
    ELSE LET s == Head(srcs)
         IN  IF s.received /\ clampNumber(s.amount) <= 0
             THEN perSourceErrors(Tail(srcs),
                                  Append(errs, NonPositiveSourceAmount(s.name)))
             ELSE perSourceErrors(Tail(srcs), errs)

step1Errors(srcs) ==
    LET some == \E i \in 1..Len(srcs) :
                    srcs[i].received /\ clampNumber(srcs[i].amount) > 0
        errs == IF ~some THEN <<MissingReceivedIncome>> ELSE <<>>
    IN  perSourceErrors(srcs, errs)

Epsilon == 1              \* 0.0001
PercentLimit == Dec(100, 1)   \* 100.0001

\* Mutant: no early return when stage 1 is invalid.
step2ErrorsNoReturn(valid1, m, f, allocated, income) ==
    LET errs0 == IF ~valid1 THEN <<Stage2Locked>> ELSE <<>>
        errs1 == IF m = "amount" /\ allocated > income + Epsilon
                 THEN Append(errs0, AllocationExceedsIncome) ELSE errs0
        pctTotal == clampNumber(f.ef) + clampNumber(f.sf)
                      + clampNumber(f.spending) + clampNumber(f.fun)
    IN  IF m = "percent" /\ pctTotal > PercentLimit
        THEN Append(errs1, PercentTotalExceeds100)
        ELSE errs1

\* Mutant: the amount check has no tolerance.
step2ErrorsNoTolerance(valid1, m, f, allocated, income) ==
    IF ~valid1 THEN <<Stage2Locked>>
    ELSE LET errs1 == IF m = "amount" /\ allocated > income
                      THEN <<AllocationExceedsIncome>> ELSE <<>>
             pctTotal == clampNumber(f.ef) + clampNumber(f.sf)
                           + clampNumber(f.spending) + clampNumber(f.fun)
         IN  IF m = "percent" /\ pctTotal > PercentLimit
             THEN Append(errs1, PercentTotalExceeds100)
             ELSE errs1

\* Mutant: the percent check looks at the converted amounts.
step2ErrorsConverted(valid1, m, f, allocated, income) ==
    IF ~valid1 THEN <<Stage2Locked>>
    ELSE LET errs1 == IF m = "amount" /\ allocated > income + Epsilon
                      THEN <<AllocationExceedsIncome>> ELSE <<>>
         IN  IF m = "percent" /\ allocated > income + Epsilon
             THEN Append(errs1, PercentTotalExceeds100)
             ELSE errs1

step2Errors(valid1, m, f, allocated, income) ==
    IF ~valid1 THEN <<Stage2Locked>>
    ELSE LET errs1 == IF m = "amount" /\ allocated > income + Epsilon
                      THEN <<AllocationExceedsIncome>> ELSE <<>>
             pctTotal == clampNumber(f.ef) + clampNumber(f.sf)
                           + clampNumber(f.spending) + clampNumber(f.fun)
         IN  IF m = "percent" /\ pctTotal > PercentLimit
             THEN Append(errs1, PercentTotalExceeds100)
             ELSE errs1

canDone(errs2) == Len(errs2) = 0

\* One run of the component body: every derived value, from the state.
Render(srcs, f, m) ==
    LET income == totalIncome(srcs)
        valid1 == step1Valid(income)
        fa == fundsAsAmount(f, m, income)
        allocated == allocatedTotal(fa)
        errs2 == step2Errors(valid1, m, f, allocated, income)
    IN  [rendered |-> TRUE,
         totalIncome |-> income,
         step1Valid |-> valid1,
         fundsAsAmount |-> fa,
         allocatedTotal |-> allocated,
         remaining |-> remaining(income, allocated),
         step1Errors |-> step1Errors(srcs),
         step2Errors |-> errs2,
         canDone |-> canDone(errs2)]

NotRendered == [rendered |-> FALSE]


(***************************************************************************)
(* The engine alone: the derived values of one render, for inputs drawn    *)
(* from bounded sets (any received flag with any amount text, which the    *)
(* page itself cannot always produce).                                     *)
(***************************************************************************)
BlankFunds == [ef |-> "", sf |-> "", spending |-> "", fun |-> ""]

EngineIds == <<"bpi", "gcash", "maya-1">>
EngineNames == <<"BPI", "GCash", "Maya">>

SrcTexts == {"", "abc", "-5", "500", "1000"}
AllocSrcTexts == {"", "1000"}

FundTexts(k) ==
    CASE k = "ef" -> {"", "-5", "300", "30", "1000", "100"}
      [] k = "sf" -> {"", "200", "30", "0.0001", "0.0002"}
      [] k = "spending" -> {"", "400", "30", "Infinity"}
      [] k = "fun" -> {"", "50", "20"}

FundInputs ==
    [ef : FundTexts("ef"), sf : FundTexts("sf"),
     spending : FundTexts("spending"), fun : FundTexts("fun")]

SourceList(n, rs, as) ==
    [i \in 1..n |-> [id |-> EngineIds[i], name |-> EngineNames[i],
                     received |-> rs[i], amount |-> as[i]]]

\* Either any source list with blank funds, or any funds and mode over the
\* source lists whose amounts are blank or "1000".
InitEngine ==
    /\ \E n \in 0..MaxListLen :
         \E rs \in [1..n -> BOOLEAN], as \in [1..n -> SrcTexts] :
             sources = SourceList(n, rs, as)
    /\ mode \in Modes
    /\ funds \in FundInputs
    /\ \/ mode = "amount" /\ funds = BlankFunds
       \/ \A i \in 1..Len(sources) : sources[i].amount \in AllocSrcTexts
    /\ toast = Null
    /\ doneSummary = Null
    /\ timers = 0
    /\ view = NotRendered
    /\ ServerIdle

RenderOnce ==
    /\ ~view.rendered
    /\ view' = Render(sources, funds, mode)
    /\ UNCHANGED <<sources, mode, funds, toast, doneSummary, timers>>
    /\ UNCHANGED serverVars

EngineSpec == InitEngine /\ [][RenderOnce]_vars


(***************************************************************************)
(* The page: state after construction, and one action per event handler.   *)
(* Every handler that changes state is followed by a render, which         *)
(* recomputes the derived values; the handlers read the derived values of  *)
(* the last render (view), as the closures of the component do.            *)
(*                                                                         *)
(* The checkbox and the amount field are taken as the page offers them     *)
(* (the field is disabled while received is off).  saveStep1Local and      *)
(* doneStep2Local are taken as handlers, with their own guards, whether or *)
(* not the button that calls them is disabled.                             *)
(***************************************************************************)
TypedAmounts == {"", "1000"}

TypedFundTexts(k) ==
    CASE k = "ef" -> {"", "-5"}
      [] k = "sf" -> {"", "1100"}
      [] k = "spending" -> {""}
      [] k = "fun" -> {""}

\* What prompt() returns: null when cancelled, else the text typed.
PromptAnswers ==
    {[cancelled |-> TRUE, text |-> ""],
     [cancelled |-> FALSE, text |-> ""],
     [cancelled |-> FALSE, text |-> "Maya"]}

\* What Date.now() returns when a source is added.
Times == {1, 2}

\* `${name}`.toLowerCase().replace(/\s+/g, "-") on the names of the model.
Slug(name) ==
    CASE name = "Maya" -> "maya"
      [] name = "BPI" -> "bpi"
      [] name = "GCash" -> "gcash"
      [] name = "Union Bank" -> "union-bank"
      [] OTHER -> name

Init ==
    /\ sources = << [id |-> "bpi", name |-> "BPI", received |-> FALSE, amount |-> ""],
                    [id |-> "gcash", name |-> "GCash", received |-> FALSE, amount |-> ""] >>
    /\ mode = "amount"
    /\ funds = BlankFunds
    /\ toast = Null
    /\ doneSummary = Null
    /\ timers = 0
    /\ view = Render(sources, funds, mode)
    /\ ServerIdle

\* The state after a handler's setState calls, and the render that follows.
Commit(srcs, f, m, d) ==
    /\ sources' = srcs
    /\ funds' = f
    /\ mode' = m
    /\ doneSummary' = d
    /\ view' = Render(srcs, f, m)

\* setToast({type, message}); window.clearTimeout(showToast._t);
\* showToast._t = window.setTimeout(() => setToast(null), 2500).
\* showToast is a new function object in every render and every call of it
\* is followed by a render, so the _t it reads is undefined and
\* clearTimeout cancels nothing: the earlier timers stay pending.
showToast(type, message) ==
    /\ toast' = [type |-> type, message |-> message]
    /\ timers' = timers + 1
    /\ UNCHANGED serverVars

\* () => setToast(null), run by a pending timer
TimerFires ==
    /\ timers > 0
    /\ toast' = Null
    /\ timers' = timers - 1
    /\ UNCHANGED <<sources, mode, funds, doneSummary, view>>
    /\ UNCHANGED serverVars

\* prev.map((s) => (s.id === id ? { ...s, ...patch } : s))
updateSource(srcs, id, patch) ==
    [i \in 1..Len(srcs) |->
        IF srcs[i].id = id
        THEN [id |-> srcs[i].id, name |-> srcs[i].name,
              received |-> IF patch.hasReceived THEN patch.received
                           ELSE srcs[i].received,
              amount |-> patch.amount]
        ELSE srcs[i]]

\* checkbox onChange of card i: updateSource(s.id, {received: checked,
\*                                    amount: checked ? s.amount : ""})
ToggleReceived(i) ==
    /\ i \in 1..Len(sources)
    /\ LET s == sources[i]
           checked == ~s.received
           patch == [hasReceived |-> TRUE, received |-> checked,
                     amount |-> IF checked THEN s.amount ELSE ""]
       IN  Commit(updateSource(sources, s.id, patch), funds, mode, doneSummary)
    /\ UNCHANGED <<toast, timers>>
    /\ UNCHANGED serverVars

\* amount input onChange of card i (disabled={!s.received}):
\* updateSource(s.id, {amount: e.target.value})
EditAmount(i, text) ==
    /\ i \in 1..Len(sources)
    /\ sources[i].received
    /\ LET patch == [hasReceived |-> FALSE, received |-> FALSE, amount |-> text]
       IN  Commit(updateSource(sources, sources[i].id, patch),
                  funds, mode, doneSummary)
    /\ UNCHANGED <<toast, timers>>
    /\ UNCHANGED serverVars

\* Mutant: the new source is added as received.
addSourceReceived(answer, now) ==
    IF answer.cancelled \/ answer.text = ""
    THEN UNCHANGED vars
    ELSE LET name == answer.text
             id == Slug(name) \o "-" \o ToString(now)
         IN  /\ Len(sources) < MaxSources
             /\ Commit(Append(sources, [id |-> id, name |-> name,
                                        received |-> TRUE, amount |-> ""]),
                       funds, mode, doneSummary)
             /\ showToast("success", "Added source: " \o name)

\* const name = prompt(...); if (!name) return; then the id, the append
\* and the toast

addSource(answer, now) ==
    IF answer.cancelled \/ answer.text = ""
    THEN UNCHANGED vars
    ELSE LET name == answer.text
             id == Slug(name) \o "-" \o ToString(now)
         IN  /\ Len(sources) < MaxSources
             /\ Commit(Append(sources, [id |-> id, name |-> name,
                                        received |-> FALSE, amount |-> ""]),
                       funds, mode, doneSummary)
             /\ showToast("success", "Added source: " \o name)

\* the remove button of card i: removeSource(s.id), then confirm().
\* The id is that of a rendered card, so sources.find always finds src (the
\* first source with that id); the filter drops every source with that id.
removeSource(i, confirmed) ==
    /\ i \in 1..Len(sources)
    /\ LET id == sources[i].id
           found == {j \in 1..Len(sources) : sources[j].id = id}
           src == sources[CHOOSE j \in found : \A k \in found : j <= k]
       IN  IF ~confirmed
           THEN UNCHANGED vars
           ELSE /\ Commit(SelectSeq(sources, LAMBDA s : s.id # id),
                          funds, mode, doneSummary)
                /\ showToast("success", "Removed source: " \o src.name)

\* Mutant: the snapshot is cleared before the errors are looked at.
saveStep1LocalClearsFirst ==
    IF Len(view.step1Errors) # 0
    THEN /\ showToast("error", "Fix Step 1 errors first.")
         /\ doneSummary' = Null
         /\ UNCHANGED <<sources, mode, funds, view>>
    ELSE /\ Commit(sources, funds, mode, Null)
         /\ showToast("success", "Step 1 saved (local only)")

\* Mutant: a successful save keeps the snapshot.
saveStep1LocalKeepsSummary ==
    IF Len(view.step1Errors) # 0
    THEN /\ showToast("error", "Fix Step 1 errors first.")
         /\ UNCHANGED <<sources, mode, funds, doneSummary, view>>
    ELSE /\ Commit(sources, funds, mode, doneSummary)
         /\ showToast("success", "Step 1 saved (local only)")

saveStep1Local ==
    IF Len(view.step1Errors) # 0
    THEN /\ showToast("error", "Fix Step 1 errors first.")
         /\ UNCHANGED <<sources, mode, funds, doneSummary, view>>
    ELSE /\ Commit(sources, funds, mode, Null)
         /\ showToast("success", "Step 1 saved (local only)")

\* Mutant: DONE does not look at canDone.
doneStep2LocalUngated ==
    /\ Commit(sources, funds, mode, view.fundsAsAmount)
    /\ showToast("success", "DONE! (local only)")

doneStep2Local ==
    IF ~view.canDone
    THEN /\ showToast("error", "Fix Step 2 errors first.")
         /\ UNCHANGED <<sources, mode, funds, doneSummary, view>>
    ELSE /\ Commit(sources, funds, mode, view.fundsAsAmount)
         /\ showToast("success", "DONE! (local only)")

\* Mutant: reset puts back the two sources the page starts with.
resetAllToInitial ==
    /\ Commit(<< [id |-> "bpi", name |-> "BPI", received |-> FALSE, amount |-> ""],
                 [id |-> "gcash", name |-> "GCash", received |-> FALSE, amount |-> ""] >>,
              BlankFunds, "amount", Null)
    /\ showToast("success", "Reset complete")

resetAll ==
    /\ Commit([i \in 1..Len(sources) |->
                  [id |-> sources[i].id, name |-> sources[i].name,
                   received |-> FALSE, amount |-> ""]],
              BlankFunds, "amount", Null)
    /\ showToast("success", "Reset complete")

\* Mutant: switching the mode empties the four fund fields.
setModeClearingFunds(m) ==
    /\ Commit(sources, IF m = mode THEN funds ELSE BlankFunds, m, doneSummary)
    /\ UNCHANGED <<toast, timers>>
    /\ UNCHANGED serverVars

\* the mode buttons: setMode("amount"), setMode("percent").  They sit in the
\* section head, outside the block that is styled as disabled while stage 2
\* is locked, and have no disabled attribute.
setMode(m) ==
    /\ Commit(sources, funds, m, doneSummary)
    /\ UNCHANGED <<toast, timers>>
    /\ UNCHANGED serverVars

\* Mutant: the snapshot is the live fundsAsAmount, so it follows the fields.
setFundsRefreshingSummary(k, v) ==
    /\ LET f == [funds EXCEPT ![k] = v]
       IN  Commit(sources, f, mode,
                  IF doneSummary = Null THEN Null
                  ELSE Render(sources, f, mode).fundsAsAmount)
    /\ UNCHANGED <<toast, timers>>
    /\ UNCHANGED serverVars

\* FundRow onChange: setFunds((p) => ({ ...p, [k]: v })).  The inputs have no
\* disabled attribute: while stage 2 is locked their block only carries a
\* style (pointerEvents none), which stops the pointer and not the keyboard.
setFunds(k, v) ==
    /\ Commit(sources, [funds EXCEPT ![k] = v], mode, doneSummary)
    /\ UNCHANGED <<toast, timers>>
    /\ UNCHANGED serverVars

Next ==
    \/ \E i \in 1..MaxSources : ToggleReceived(i)
    \/ \E i \in 1..MaxSources, text \in TypedAmounts : EditAmount(i, text)
    \/ timers < MaxTimers /\
          \E answer \in PromptAnswers, now \in Times : addSource(answer, now)
    \/ timers < MaxTimers /\
          \E i \in 1..MaxSources, confirmed \in BOOLEAN : removeSource(i, confirmed)
    \/ timers < MaxTimers /\ saveStep1Local
    \/ timers < MaxTimers /\ doneStep2Local
    \/ timers < MaxTimers /\ resetAll
    \/ \E m \in Modes : setMode(m)
    \/ \E k \in FundKeys : \E v \in TypedFundTexts(k) : setFunds(k, v)
    \/ TimerFires

Spec == Init /\ [][Next]_vars

\* The page with the stage-2 fields left alone and room for two pending
\* timers: the handlers that show a toast, and the timers.
ToastNext ==
    \/ \E i \in 1..MaxSources : ToggleReceived(i)
    \/ \E i \in 1..MaxSources, text \in TypedAmounts : EditAmount(i, text)
    \/ timers < MaxPending /\
          \E answer \in PromptAnswers, now \in Times : addSource(answer, now)
    \/ timers < MaxPending /\
          \E i \in 1..MaxSources, confirmed \in BOOLEAN : removeSource(i, confirmed)
    \/ timers < MaxPending /\ saveStep1Local
    \/ timers < MaxPending /\ doneStep2Local
    \/ timers < MaxPending /\ resetAll
    \/ TimerFires

ToastSpec == Init /\ [][ToastNext]_vars


(***************************************************************************)
(* The Express server: the user routes behind the auth middleware          *)
(* (src/unnamed/part_004, src/middleware/auth.js,                          *)
(* src/controllers/userController.js, src/models/userModel.js) and the     *)
(* Google routes (src/routes/googleRoutes.js,                              *)
(* src/controllers/googleController.js).  A request is held with the       *)
(* handler that runs next for it (pc), the handlers called so far and the  *)
(* responses sent so far.  A handler runs to its return or its next await  *)
(* in one step; requests interleave at those points.                       *)
(***************************************************************************)
MaxRequests == 2    \* a request is received only while fewer have arrived

PageIdle ==
    /\ sources = <<>>
    /\ mode = "amount"
    /\ funds = BlankFunds
    /\ toast = Null
    /\ doneSummary = Null
    /\ timers = 0
    /\ view = NotRendered

\* an object without the key looked up (a header, a parameter not sent)
NoFields == [k \in {} |-> ""]

\* router.get("/users", auth, listUsers), router.get("/users/:id", auth,
\* getUser) under /api; the three Google routes under /auth: the handler
\* chain of each route.
Chain(route) ==
    CASE route = "GET /api/users" -> <<"auth", "listUsers">>
      [] route = "GET /api/users/:id" -> <<"auth", "getUser">>
      [] route = "GET /auth/google" -> <<"redirectToGoogle">>
      [] route = "GET /auth/google/callback" -> <<"googleCallback">>
      [] route = "POST /auth/google/create" ->
            <<"createSpreadsheetFromStoredTokens">>

NewRequest(route, headers, params, query) ==
    [route |-> route, headers |-> headers, params |-> params, query |-> query,
     user |-> Null, tokens |-> Null,
     pc |-> Chain(route)[1], called |-> <<>>, responses |-> <<>>]

AuthHeaders ==
    {NoFields} \cup
    {[authorization |-> h] :
        h \in {"", "Basic secret-token", "Bearer ", "Bearer wrong",
               "Bearer secret-token"}}

IdParams == {"1", "2", "3", "abc"}
Codes == {"c1"}

Incoming ==
    {NewRequest("GET /api/users", h, NoFields, NoFields) : h \in AuthHeaders}
    \cup {NewRequest("GET /api/users/:id", h, [id |-> id], NoFields) :
            h \in {NoFields, [authorization |-> "Bearer secret-token"]},
            id \in IdParams}
    \cup {NewRequest("GET /auth/google", NoFields, NoFields, NoFields)}
    \cup {NewRequest("GET /auth/google/callback", NoFields, NoFields, q) :
            q \in {NoFields} \cup {[code |-> c] : c \in Codes}}
    \cup {NewRequest("POST /auth/google/create", NoFields, NoFields, NoFields)}

\* JSON.stringify(tokens, null, 2) and JSON.parse of such a text
JSONstringify(v) == [json |-> v]
JSONparse(text) == text.json

\* what oAuth2Client.getToken(code) resolves to
TokensFor(code) == [access_token |-> "at-" \o code]

ServerInit ==
    /\ PageIdle
    /\ requests = <<>>
    /\ tokensFile \in {Null, JSONstringify(TokensFor("c0"))}
    /\ googleEnv \in BOOLEAN
    /\ users = USERS

\* a request arrives and is routed
Arrive(req) ==
    /\ Len(requests) < MaxRequests
    /\ requests' = Append(requests, req)
    /\ UNCHANGED <<tokensFile, googleEnv, users>>
    /\ UNCHANGED pageVars

\* the handler named h is entered for request req
Enter(req, h) == [req EXCEPT !.called = Append(@, h)]

\* res.status(status).json(body) / res.json(body) / res.send / res.redirect,
\* after which the handler returns without calling next()
Respond(req, status, body) ==
    [req EXCEPT !.responses = Append(@, [status |-> status, body |-> body]),
                !.pc = "end"]

\* next(): the handler after h in the chain of the route
CallNext(req, h) ==
    LET chain == Chain(req.route)
        at == CHOOSE j \in 1..Len(chain) : chain[j] = h
    IN  [req EXCEPT !.pc = IF at < Len(chain) THEN chain[at + 1] ELSE "end"]

\* authHeader.startsWith(prefix)
startsWith(text, prefix) ==
    /\ Len(text) >= Len(prefix)
    /\ SubSeq(text, 1, Len(prefix)) = prefix

\* authHeader.slice(from): the text after its first `from` characters
slice(text, from) == SubSeq(text, from + 1, Len(text))

\* Mutant: the token is compared only when the header carries one, and a
\* header without the Bearer prefix is let through.
authLenient(i) ==
    /\ i \in 1..Len(requests)
    /\ requests[i].pc = "auth"
    /\ LET req == Enter(requests[i], "auth")
           authHeader == IF "authorization" \in DOMAIN req.headers
                         THEN req.headers.authorization ELSE ""
           bearer == startsWith(authHeader, "Bearer ")
           token == IF bearer THEN slice(authHeader, Len("Bearer ")) ELSE ""
       IN  requests' = [requests EXCEPT ![i] =
               IF bearer /\ token = ""
               THEN Respond(req, 401, [error |-> "Missing token"])
               ELSE IF bearer /\ token # "secret-token"
               THEN Respond(req, 403, [error |-> "Invalid token"])
               ELSE CallNext([req EXCEPT !.user = [id |-> 1, role |-> "admin"]],
                             "auth")]
    /\ UNCHANGED <<tokensFile, googleEnv, users>>
    /\ UNCHANGED pageVars

\* function auth(req, res, next).  The header read is
\* req.headers["authorization"] || "", the token is the text after
\* "Bearer " or null; null and "" are both falsy and both differ from
\* "secret-token", so null is written "" here.
auth(i) ==
    /\ i \in 1..Len(requests)
    /\ requests[i].pc = "auth"
    /\ LET req == Enter(requests[i], "auth")
           authHeader == IF "authorization" \in DOMAIN req.headers
                         THEN req.headers.authorization ELSE ""
           token == IF startsWith(authHeader, "Bearer ")
                    THEN slice(authHeader, Len("Bearer ")) ELSE ""
       IN  requests' = [requests EXCEPT ![i] =
               IF token = ""
               THEN Respond(req, 401, [error |-> "Missing token"])
               ELSE IF token # "secret-token"
               THEN Respond(req, 403, [error |-> "Invalid token"])
               ELSE CallNext([req EXCEPT !.user = [id |-> 1, role |-> "admin"]],
                             "auth")]
    /\ UNCHANGED <<tokensFile, googleEnv, users>>
    /\ UNCHANGED pageVars

\* Mutant: a number that is no user's id finds the last user.
getUserByIdOrLast(id) ==
    LET found == {j \in 1..Len(users) : id.finite /\ id.val = Dec(users[j].id, 0)}
    IN  IF found = {} THEN (IF id.finite THEN users[Len(users)] ELSE Null)
        ELSE users[CHOOSE j \in found : \A k \in found : j <= k]

getAllUsers == users

\* USERS.find((u) => u.id === id) || null, id being a Number(...) value
getUserById(id) ==
    LET found == {j \in 1..Len(users) : id.finite /\ id.val = Dec(users[j].id, 0)}
    IN  IF found = {} THEN Null
        ELSE users[CHOOSE j \in found : \A k \in found : j <= k]

\* function listUsers(req, res).  Reading req.user.role of a request that
\* did not pass auth would throw; Express then answers 500.
listUsers(i) ==
    /\ i \in 1..Len(requests)
    /\ requests[i].pc = "listUsers"
    /\ LET req == Enter(requests[i], "listUsers")
       IN  requests' = [requests EXCEPT ![i] =
               IF req.user = Null
               THEN Respond(req, 500, [error |-> "TypeError"])
               ELSE Respond(req, 200,
                      [message |-> "Hello " \o req.user.role
                                     \o ", here are the users",
                       data |-> getAllUsers])]
    /\ UNCHANGED <<tokensFile, googleEnv, users>>
    /\ UNCHANGED pageVars

\* function getUser(req, res)
getUser(i) ==
    /\ i \in 1..Len(requests)
    /\ requests[i].pc = "getUser"
    /\ LET req == Enter(requests[i], "getUser")
           id == Number(req.params.id)
           user == getUserById(id)
       IN  requests' = [requests EXCEPT ![i] =
               IF user = Null
               THEN Respond(req, 404, [error |-> "User not found"])
               ELSE Respond(req, 200, [data |-> user])]
    /\ UNCHANGED <<tokensFile, googleEnv, users>>
    /\ UNCHANGED pageVars

\* exports.redirectToGoogle: getOAuth2Client throws when a GOOGLE_*
\* variable is missing, and the catch answers 500.
redirectToGoogle(i) ==
    /\ i \in 1..Len(requests)
    /\ requests[i].pc = "redirectToGoogle"
    /\ LET req == Enter(requests[i], "redirectToGoogle")
       IN  requests' = [requests EXCEPT ![i] =
               IF ~googleEnv
               THEN Respond(req, 500, [error |-> "Failed to generate auth URL"])
               ELSE Respond(req, 302, [location |-> "authUrl"])]
    /\ UNCHANGED <<tokensFile, googleEnv, users>>
    /\ UNCHANGED pageVars

CallbackFailed == [error |-> "Failed to exchange code or create spreadsheet"]
CreateFailed == [error |-> "Failed to create spreadsheet"]
NoStoredTokens == [error |-> "No stored tokens. Authorize first via /auth/google"]

\* what the handlers answer once sheets.spreadsheets.create has resolved
SpreadsheetCreated ==
    [message |-> "Spreadsheet created",
     spreadsheetId |-> "sid",
     spreadsheetUrl |-> "https://docs.google.com/spreadsheets/d/" \o "sid"]

\* exports.googleCallback, up to its first await (oAuth2Client.getToken)
googleCallback(i) ==
    /\ i \in 1..Len(requests)
    /\ requests[i].pc = "googleCallback"
    /\ LET req == Enter(requests[i], "googleCallback")
       IN  requests' = [requests EXCEPT ![i] =
               IF "code" \notin DOMAIN req.query \/ req.query.code = ""
               THEN Respond(req, 400, [text |-> "Missing code"])
               ELSE IF ~googleEnv
               THEN Respond(req, 500, CallbackFailed)
               ELSE [req EXCEPT !.pc = "getToken"]]
    /\ UNCHANGED <<tokensFile, googleEnv, users>>
    /\ UNCHANGED pageVars

\* Mutant: the tokens are written only after the spreadsheet was created.
getTokenSettlesWithoutWrite(i, ok) ==
    /\ i \in 1..Len(requests)
    /\ requests[i].pc = "getToken"
    /\ LET req == requests[i]
       IN  requests' = [requests EXCEPT ![i] =
               IF ~ok THEN Respond(req, 500, CallbackFailed)
               ELSE [req EXCEPT !.tokens = TokensFor(req.query.code),
                                !.pc = "callbackCreate"]]
    /\ UNCHANGED <<tokensFile, googleEnv, users>>
    /\ UNCHANGED pageVars

\* googleCallback from the settling of getToken to its second await
\* (sheets.spreadsheets.create): a rejection is caught and answered 500;
\* otherwise setCredentials and fs.writeFileSync(TOKENS_PATH, ...) run before
\* the spreadsheet is asked for.
getTokenSettles(i, ok) ==
    /\ i \in 1..Len(requests)
    /\ requests[i].pc = "getToken"
    /\ LET req == requests[i]
           tokens == TokensFor(req.query.code)
       IN  IF ~ok
           THEN /\ requests' = [requests EXCEPT ![i] =
                                   Respond(req, 500, CallbackFailed)]
                /\ UNCHANGED tokensFile
           ELSE /\ requests' = [requests EXCEPT ![i] =
                                   [req EXCEPT !.tokens = tokens,
                                               !.pc = "callbackCreate"]]
                /\ tokensFile' = JSONstringify(tokens)
    /\ UNCHANGED <<googleEnv, users>>
    /\ UNCHANGED pageVars

\* googleCallback from the settling of sheets.spreadsheets.create
callbackCreateSettles(i, ok) ==
    /\ i \in 1..Len(requests)
    /\ requests[i].pc = "callbackCreate"
    /\ requests' = [requests EXCEPT ![i] =
           IF ok THEN Respond(requests[i], 200, SpreadsheetCreated)
           ELSE Respond(requests[i], 500, CallbackFailed)]
    /\ UNCHANGED <<tokensFile, googleEnv, users>>
    /\ UNCHANGED pageVars

\* exports.createSpreadsheetFromStoredTokens, up to its await
createSpreadsheetFromStoredTokens(i) ==
    /\ i \in 1..Len(requests)
    /\ requests[i].pc = "createSpreadsheetFromStoredTokens"
    /\ LET req == Enter(requests[i], "createSpreadsheetFromStoredTokens")
       IN  requests' = [requests EXCEPT ![i] =
               IF tokensFile = Null
               THEN Respond(req, 400, NoStoredTokens)
               ELSE IF ~googleEnv
               THEN Respond(req, 500, CreateFailed)
               ELSE [req EXCEPT !.tokens = JSONparse(tokensFile),
                                !.pc = "storedCreate"]]
    /\ UNCHANGED <<tokensFile, googleEnv, users>>
    /\ UNCHANGED pageVars

\* createSpreadsheetFromStoredTokens from the settling of
\* sheets.spreadsheets.create
storedCreateSettles(i, ok) ==
    /\ i \in 1..Len(requests)
    /\ requests[i].pc = "storedCreate"
    /\ requests' = [requests EXCEPT ![i] =
           IF ok THEN Respond(requests[i], 200, SpreadsheetCreated)
           ELSE Respond(requests[i], 500, CreateFailed)]
    /\ UNCHANGED <<tokensFile, googleEnv, users>>
    /\ UNCHANGED pageVars

ServerNext ==
    \/ \E req \in Incoming : Arrive(req)
    \/ \E i \in 1..MaxRequests : auth(i)
    \/ \E i \in 1..MaxRequests : listUsers(i)
    \/ \E i \in 1..MaxRequests : getUser(i)
    \/ \E i \in 1..MaxRequests : redirectToGoogle(i)
    \/ \E i \in 1..MaxRequests : googleCallback(i)
    \/ \E i \in 1..MaxRequests, ok \in BOOLEAN : getTokenSettles(i, ok)
    \/ \E i \in 1..MaxRequests, ok \in BOOLEAN : callbackCreateSettles(i, ok)
    \/ \E i \in 1..MaxRequests : createSpreadsheetFromStoredTokens(i)
    \/ \E i \in 1..MaxRequests, ok \in BOOLEAN : storedCreateSettles(i, ok)

ServerSpec == ServerInit /\ [][ServerNext]_vars

(***************************************************************************)
(* Claims                                                                  *)
(***************************************************************************)
Positive(s) == s.received /\ clampNumber(s.amount) > 0
NonPositive(s) == s.received /\ clampNumber(s.amount) <= 0
PositiveAt(srcs) == {i \in 1..Len(srcs) : Positive(srcs[i])}
NonPositiveAt(srcs) == {i \in 1..Len(srcs) : NonPositive(srcs[i])}

\* C1, as stated: the stage-1 error list is empty if and only if totalIncome > 0,
\* so step1Valid holds exactly when stage 1 has no errors.
C1_ErrorsEmptyIffIncomePositive ==
    view.rendered =>
        /\ (view.step1Errors = <<>>) <=> (view.totalIncome > 0)
        /\ view.step1Valid <=> (view.step1Errors = <<>>)

\* C1, amended: the stage-1 error list is empty if and only if totalIncome > 0
\* and no received source has a parsed amount <= 0; step1Valid is
\* totalIncome > 0, so it holds whenever the list is empty, and it holds
\* exactly when the list does not start with the general error.
C1_ErrorsEmptyIffIncomePositiveAndNoBadSource ==
    view.rendered =>
        /\ (view.step1Errors = <<>>)
              <=> (view.totalIncome > 0 /\ NonPositiveAt(sources) = {})
        /\ view.step1Valid <=> (view.totalIncome > 0)
        /\ (view.step1Errors = <<>>) => view.step1Valid
        /\ view.step1Valid
              <=> (view.step1Errors = <<>>
                     \/ view.step1Errors[1] # MissingReceivedIncome)

\* Stage 2 is unlocked although stage 1 reports an error.
C1_Witness ==
    /\ view.rendered
    /\ view.step1Valid
    /\ view.step1Errors # <<>>


\* C2: DONE stores a snapshot equal to the four converted amounts of the
\* current sources, funds and mode only when the stage-2 error list is empty;
\* otherwise it leaves snapshot, sources, funds and mode unchanged.  Hence a
\* snapshot is only ever stored from a state in which stage 2 is unlocked
\* (step1Valid) and the stage-2 error list is empty.
C2_DoneIsGated ==
    [][ /\ doneStep2Local =>
              IF step2Errors(step1Valid(totalIncome(sources)), mode, funds,
                             allocatedTotal(fundsAsAmount(funds, mode,
                                                         totalIncome(sources))),
                             totalIncome(sources)) = <<>>
              THEN /\ doneSummary' = fundsAsAmount(funds, mode, totalIncome(sources))
                   /\ UNCHANGED <<sources, funds, mode>>
              ELSE UNCHANGED <<doneSummary, sources, funds, mode>>
        /\ (doneSummary' # doneSummary /\ doneSummary' # Null) =>
              /\ view.step1Valid
              /\ view.totalIncome > 0
              /\ view.step2Errors = <<>>
              /\ doneSummary' = view.fundsAsAmount
      ]_vars

\* DONE has just stored a snapshot of a non-zero allocation.
C2_Witness ==
    /\ toast # Null
    /\ toast.message = "DONE! (local only)"
    /\ doneSummary # Null
    /\ doneSummary = view.fundsAsAmount
    /\ doneSummary.sf = Dec(1100, 0)

Max0(n) == IF n > 0 THEN n ELSE 0

\* C3: convertAllocations yields four non-negative amounts: under amount mode
\* each is parse(field) clamped to >= 0, under percent mode each is
\* totalIncome * clamp(parse(field), >= 0) / 100; a negative field converts
\* to 0.
C3_ConvertedAmountsClamped ==
    view.rendered =>
        \A k \in FundKeys :
            /\ view.fundsAsAmount[k] >= 0
            /\ mode = "amount" =>
                  view.fundsAsAmount[k] = Max0(clampNumber(funds[k]))
            /\ mode = "percent" =>
                  view.fundsAsAmount[k]
                      = MulDiv100(view.totalIncome, Max0(clampNumber(funds[k])))

\* Sum of the parsed amounts of the sources at the positions in I.
RECURSIVE SumAmounts(_, _)
SumAmounts(srcs, I) ==
    IF I = {} THEN 0
    ELSE LET i == CHOOSE j \in I : TRUE
         IN  clampNumber(srcs[i].amount) + SumAmounts(srcs, I \ {i})

\* C4: totalIncome is the sum of the parsed amounts of exactly the sources
\* with received = true and parsed amount > 0; every other source adds 0.
C4_TotalIncomeIsSumOfReceivedPositive ==
    view.rendered =>
        view.totalIncome = SumAmounts(sources, PositiveAt(sources))

\* [{received: true, amount: "1000"}, {received: false, amount: "500"}]
\* gives 1000 and no stage-1 error.
C4_Witness ==
    /\ view.rendered
    /\ Len(sources) = 2
    /\ sources[1].received /\ sources[1].amount = "1000"
    /\ ~sources[2].received /\ sources[2].amount = "500"
    /\ view.totalIncome = Dec(1000, 0)
    /\ view.step1Errors = <<>>

\* C5: when stage 1 is invalid (totalIncome = 0, as when no source is
\* received) the stage-2 error list is exactly the locked error, whatever the
\* mode and the fund fields are, and canFinalize is false.
C5_LockedIsTheOnlyError ==
    view.rendered =>
        /\ (\A i \in 1..Len(sources) : ~sources[i].received)
              => view.totalIncome = 0
        /\ view.totalIncome = 0 =>
              /\ ~view.step1Valid
              /\ view.step2Errors = <<Stage2Locked>>
              /\ ~view.canDone

\* No source received, percent fields summing to 130, amounts over income.
C5_Witness ==
    /\ view.rendered
    /\ Len(sources) = 2
    /\ \A i \in 1..Len(sources) : ~sources[i].received
    /\ mode = "percent"
    /\ funds.ef = "100" /\ funds.sf = "30"
    /\ view.step2Errors = <<Stage2Locked>>

\* C6: under amount mode with stage 1 valid the stage-2 error list holds the
\* allocation-exceeds-income error if and only if
\* allocatedTotal > totalIncome + 0.0001, and nothing else; income 1000 with
\* 300/200/400/50 gives allocated 950, remaining 50, no error, canFinalize.
C6_AmountModeOverflow ==
    (view.rendered /\ mode = "amount" /\ view.totalIncome > 0) =>
        /\ view.step2Errors =
              IF view.allocatedTotal > view.totalIncome + Dec(0, 1)
              THEN <<AllocationExceedsIncome>> ELSE <<>>
        /\ view.canDone <=> (view.allocatedTotal <= view.totalIncome + Dec(0, 1))
        /\ (/\ view.totalIncome = Dec(1000, 0)
            /\ funds = [ef |-> "300", sf |-> "200", spending |-> "400", fun |-> "50"])
              => /\ view.allocatedTotal = Dec(950, 0)
                 /\ view.remaining = Dec(50, 0)
                 /\ view.step2Errors = <<>>
                 /\ view.canDone

C6_Witness ==
    /\ view.rendered
    /\ mode = "amount"
    /\ view.totalIncome = Dec(1000, 0)
    /\ funds = [ef |-> "300", sf |-> "200", spending |-> "400", fun |-> "50"]
    /\ view.allocatedTotal = Dec(950, 0)
    /\ view.canDone

RawPercentTotal(f) ==
    clampNumber(f.ef) + clampNumber(f.sf) + clampNumber(f.spending)
        + clampNumber(f.fun)

\* C7: under percent mode with stage 1 valid the stage-2 error list holds the
\* percent-total error if and only if the sum of the four parsed percent
\* fields exceeds 100.0001, and never the amount-mode error; 30/30/30/20
\* gives the error and canFinalize = false.
C7_PercentModeOverflow ==
    (view.rendered /\ mode = "percent" /\ view.totalIncome > 0) =>
        /\ view.step2Errors =
              IF RawPercentTotal(funds) > Dec(100, 1)
              THEN <<PercentTotalExceeds100>> ELSE <<>>
        /\ view.canDone <=> (RawPercentTotal(funds) <= Dec(100, 1))
        /\ funds = [ef |-> "30", sf |-> "30", spending |-> "30", fun |-> "20"]
              => /\ view.step2Errors = <<PercentTotalExceeds100>>
                 /\ ~view.canDone

C7_Witness ==
    /\ view.rendered
    /\ mode = "percent"
    /\ view.totalIncome = Dec(1000, 0)
    /\ funds = [ef |-> "30", sf |-> "30", spending |-> "30", fun |-> "20"]
    /\ view.step2Errors = <<PercentTotalExceeds100>>

\* C8: the stage-1 error list holds the general error exactly when no source
\* is received with a parsed amount > 0, followed by one error per source
\* with received = true and parsed amount <= 0, in source order, each naming
\* its source.
C8_Stage1ErrorsCollected ==
    view.rendered =>
        LET errs == view.step1Errors
            bad == NonPositiveAt(sources)
            g == IF PositiveAt(sources) = {} THEN 1 ELSE 0
            rank(i) == Cardinality({j \in bad : j <= i})
        IN  /\ Len(errs) = g + Cardinality(bad)
            /\ g = 1 => errs[1] = MissingReceivedIncome
            /\ \A i \in bad :
                  errs[g + rank(i)] = NonPositiveSourceAmount(sources[i].name)

\* The general error and two per-source errors, one of them for a
\* non-numeric amount.
C8_Witness ==
    /\ view.rendered
    /\ Len(sources) = 2
    /\ sources[1].received /\ sources[1].amount = "abc"
    /\ sources[2].received /\ sources[2].amount = "-5"
    /\ view.step1Errors = << MissingReceivedIncome,
                             "BPI: amount must be > 0 if received is ON.",
                             "GCash: amount must be > 0 if received is ON." >>


SavedToast == [type |-> "success", message |-> "Step 1 saved (local only)"]
ResetToast == [type |-> "success", message |-> "Reset complete"]

\* C9: immediately after a successful Save Step 1, and immediately after
\* Reset, no finalized snapshot is present.
C9_SnapshotClearedBySaveAndReset ==
    [][ /\ (saveStep1Local /\ view.step1Errors = <<>>) => doneSummary' = Null
        /\ resetAll => doneSummary' = Null
        /\ (toast' # toast /\ toast' \in {SavedToast, ResetToast})
              => doneSummary' = Null
      ]_vars

\* Save Step 1 has just succeeded with funds that DONE accepts.
C9_Witness ==
    /\ toast = SavedToast
    /\ doneSummary = Null
    /\ funds # BlankFunds
    /\ view.canDone

\* C10: Reset sets every source to received = false and amount = "", all four
\* fund fields to "", the mode to amount and clears the snapshot, keeping the
\* source list's length, order, ids and names; afterwards totalIncome = 0 and
\* stage 2 is locked.
C10_ResetAll ==
    [][ resetAll =>
          /\ Len(sources') = Len(sources)
          /\ \A i \in 1..Len(sources) :
                /\ sources'[i].id = sources[i].id
                /\ sources'[i].name = sources[i].name
                /\ sources'[i].received = FALSE
                /\ sources'[i].amount = ""
          /\ \A k \in FundKeys : funds'[k] = ""
          /\ mode' = "amount"
          /\ doneSummary' = Null
          /\ totalIncome(sources') = 0
          /\ view'.totalIncome = 0
          /\ ~view'.step1Valid
          /\ view'.step2Errors = <<Stage2Locked>>
      ]_vars

\* Reset has just run on a list that holds a source added through the prompt.
C10_Witness ==
    /\ toast = ResetToast
    /\ \E i \in 1..Len(sources) : sources[i].id \notin {"bpi", "gcash"}
    /\ \A i \in 1..Len(sources) : ~sources[i].received /\ sources[i].amount = ""
    /\ funds = BlankFunds
    /\ mode = "amount"
    /\ doneSummary = Null

\* The four fund texts read as amounts, whatever the mode.
RawAmounts(f) == [k \in FundKeys |-> clampNumber(f[k])]

\* C11: a mode switch changes only the mode: the four fund texts, the sources
\* and the snapshot stay.  So the amounts read under mode amount are the raw
\* text values both before a switch to percent and after the switch back.
\* Choosing the mode already selected changes nothing: the state is already
\* what setMode and the render after it would make of it.
C11_ModeSwitchChangesOnlyMode ==
    /\ [](view = Render(sources, funds, mode))
    /\ [][ \A m \in Modes : (mode' = m /\ m # mode /\ setMode(m)) =>
              /\ funds' = funds
              /\ sources' = sources
              /\ doneSummary' = doneSummary
              /\ toast' = toast
              /\ view'.totalIncome = view.totalIncome
              /\ fundsAsAmount(funds', "amount", view'.totalIncome)
                    = fundsAsAmount(funds, "amount", view.totalIncome)
              /\ (m = "amount" => view'.fundsAsAmount = RawAmounts(funds))
              /\ (mode = "amount" => view.fundsAsAmount = RawAmounts(funds'))
          ]_vars

\* The mode is amount again after a DONE taken under percent: the snapshot
\* holds the converted value, the page shows the raw one.
C11_Witness ==
    /\ mode = "amount"
    /\ view.totalIncome > 0
    /\ funds.ef = "-5"
    /\ doneSummary # Null
    /\ doneSummary.ef = MulDiv100(view.totalIncome, clampNumber("-5"))
    /\ view.fundsAsAmount.ef = clampNumber("-5")
    /\ view.fundsAsAmount.ef # doneSummary.ef

\* C12: while totalIncome = 0 no stage-2 action (a fund field edit, a mode
\* switch, DONE) changes the funds, the mode or the snapshot.
C12_LockedStage2IsInert ==
    [][ (view.totalIncome = 0 /\
         \/ \E m \in Modes : setMode(m)
         \/ \E k \in FundKeys : \E v \in TypedFundTexts(k) : setFunds(k, v)
         \/ doneStep2Local)
        => /\ funds' = funds
           /\ mode' = mode
           /\ doneSummary' = doneSummary
      ]_vars

\* allocatedTotal and remaining as the claim defines them.
SumOfConverted(v) ==
    v.fundsAsAmount.ef + v.fundsAsAmount.sf
      + v.fundsAsAmount.spending + v.fundsAsAmount.fun

\* C13 as stated: allocatedTotal is the sum of the four converted amounts,
\* remaining is totalIncome - allocatedTotal, and in either mode canDone
\* implies remaining >= -0.0001.
C13_FinalizableWithinTolerance ==
    view.rendered =>
        /\ view.allocatedTotal = SumOfConverted(view)
        /\ view.remaining = view.totalIncome - SumOfConverted(view)
        /\ (view.canDone => view.remaining >= 0 - Epsilon)

\* C13, amended: the two sums as stated; canDone implies
\* remaining >= -0.0001 under mode amount, and under mode percent only
\* remaining >= -(totalIncome * 0.0001 / 100), the raw percent total being
\* at most 100.0001.
C13_FinalizableWithinModeTolerance ==
    view.rendered =>
        /\ view.allocatedTotal = SumOfConverted(view)
        /\ view.remaining = view.totalIncome - SumOfConverted(view)
        /\ (view.canDone /\ mode = "amount" => view.remaining >= 0 - Epsilon)
        /\ (view.canDone /\ mode = "percent" =>
               /\ RawPercentTotal(funds) <= PercentLimit
               /\ view.remaining >= 0 - MulDiv100(view.totalIncome, Epsilon))

\* Percent total 100.0001 of an income of 1000 or more: DONE is allowed and
\* remaining is below -0.0001.
C13_Witness ==
    /\ view.rendered
    /\ mode = "percent"
    /\ view.canDone
    /\ view.totalIncome >= Dec(1000, 0)
    /\ view.remaining = 0 - MulDiv100(view.totalIncome, Epsilon)
    /\ view.remaining < 0 - Epsilon

\* C14: totalIncome >= 0 for every source list, whatever the received flags
\* and whatever the amount texts (negative, empty, non-numeric).
C14_TotalIncomeNonNegative ==
    /\ totalIncome(sources) >= 0
    /\ view.rendered => view.totalIncome >= 0

\* A received source with a negative amount beside a received source with a
\* non-numeric one: neither counts.
C14_Witness ==
    /\ view.rendered
    /\ \E i, j \in 1..Len(sources) :
          /\ sources[i].received /\ sources[i].amount = "-5"
          /\ sources[j].received /\ sources[j].amount = "abc"
    /\ view.totalIncome = 0

Stage1Messages(srcs) ==
    {MissingReceivedIncome}
      \cup {NonPositiveSourceAmount(srcs[i].name) : i \in 1..Len(srcs)}

Stage2Messages ==
    {Stage2Locked, AllocationExceedsIncome, PercentTotalExceeds100}

AllTexts(srcs, f) ==
    {srcs[i].amount : i \in 1..Len(srcs)} \cup {f[k] : k \in FundKeys}

\* C15: every computation is total.  Any amount or fund text parses to a
\* number, a text that is not a finite number to 0; for every input the
\* render produces totalIncome, fundsAsAmount, allocatedTotal, remaining and
\* both error lists; a validation failure is an entry of an error list and
\* nothing else.
C15_ComputationsTotal ==
    /\ \A t \in AllTexts(sources, funds) :
          /\ clampNumber(t) \in Int
          /\ (~Number(t).finite => clampNumber(t) = 0)
    /\ LET v == Render(sources, funds, mode)
       IN  /\ v.totalIncome \in Int
           /\ \A k \in FundKeys : v.fundsAsAmount[k] \in Int
           /\ v.allocatedTotal \in Int
           /\ v.remaining \in Int
           /\ \A i \in 1..Len(v.step1Errors) :
                 v.step1Errors[i] \in Stage1Messages(sources)
           /\ \A i \in 1..Len(v.step2Errors) :
                 v.step2Errors[i] \in Stage2Messages
           /\ v.canDone \in BOOLEAN
           /\ (\A t \in AllTexts(sources, funds) : ~Number(t).finite)
                 => /\ v.totalIncome = 0
                    /\ v.allocatedTotal = 0
           /\ (view.rendered => view = v)

\* A received source with an empty amount and a fund field that reads
\* Infinity: both count as 0 and the render reports the stage-1 error.
C15_Witness ==
    /\ view.rendered
    /\ \E i \in 1..Len(sources) :
          /\ sources[i].received /\ sources[i].amount = ""
          /\ NonPositiveSourceAmount(sources[i].name)
                \in {view.step1Errors[j] : j \in 1..Len(view.step1Errors)}
    /\ funds.spending = "Infinity"
    /\ view.fundsAsAmount.spending = 0

\* C18: the snapshot is immutable.  A step that changes it is a successful
\* DONE (replaced by the amounts of that moment), a successful Save Step 1
\* (cleared) or Reset (cleared); so no fund field edit, mode switch, toggle,
\* amount edit, add or remove of a source changes it.
C18_SnapshotImmutable ==
    [][ doneSummary' # doneSummary
           => /\ \/ /\ doneStep2Local /\ view.canDone
                    /\ doneSummary' = view.fundsAsAmount
                 \/ /\ saveStep1Local /\ view.step1Errors = <<>>
                    /\ doneSummary' = Null
                 \/ /\ resetAll
                    /\ doneSummary' = Null
              /\ \A k \in FundKeys : \A v \in TypedFundTexts(k) : ~setFunds(k, v)
              /\ \A m \in Modes : ~setMode(m)
              /\ \A i \in 1..MaxSources : ~ToggleReceived(i)
              /\ \A i \in 1..MaxSources, text \in TypedAmounts :
                    ~EditAmount(i, text)
              /\ \A answer \in PromptAnswers, now \in Times :
                    ~addSource(answer, now)
              /\ \A i \in 1..MaxSources, confirmed \in BOOLEAN :
                    ~removeSource(i, confirmed)
      ]_vars

\* A snapshot taken earlier has outlived an edit: the fields no longer
\* convert to the amounts it holds.
C18_Witness ==
    /\ doneSummary # Null
    /\ doneSummary # view.fundsAsAmount
    /\ view.canDone

\* C19: whenever a snapshot is present, stage 1 is valid (totalIncome > 0)
\* and stage 2 is unlocked.
C19_SnapshotOnlyWhileUnlocked ==
    doneSummary # Null =>
        /\ view.totalIncome > 0
        /\ view.step1Valid
        /\ Stage2Locked \notin {view.step2Errors[i] : i \in 1..Len(view.step2Errors)}

\* C20: every source with received = false has amount = "".  Toggling
\* received off clears that source's amount and leaves every other source
\* unchanged, toggling on keeps the amount, and the amount is edited only
\* while received is true.
C20_NotReceivedMeansBlank ==
    /\ [](\A i \in 1..Len(sources) :
             ~sources[i].received => sources[i].amount = "")
    /\ [][ \A i \in 1..Len(sources) :
             /\ (ToggleReceived(i) /\ sources[i].received) =>
                   /\ Len(sources') = Len(sources)
                   /\ ~sources'[i].received
                   /\ sources'[i].amount = ""
                   /\ \A j \in 1..Len(sources) : j # i => sources'[j] = sources[j]
             /\ (ToggleReceived(i) /\ ~sources[i].received) =>
                   /\ sources'[i].received
                   /\ sources'[i].amount = sources[i].amount
             /\ (\E text \in TypedAmounts : EditAmount(i, text)) =>
                   sources[i].received
         ]_vars

UserRoutes == {"GET /api/users", "GET /api/users/:id"}
Controllers == {"listUsers", "getUser"}

Sent(status, body) == <<[status |-> status, body |-> body]>>

\* the Authorization header of a request, "" when it has none
Authorization(req) ==
    IF "authorization" \in DOMAIN req.headers
    THEN req.headers.authorization ELSE ""

\* C16: on the user routes auth runs before the controller and lets a request
\* through only with the header "Bearer secret-token".  Without a header,
\* with a header that does not start with "Bearer " or with an empty token
\* the answer is 401 "Missing token", with any other token 403 "Invalid
\* token"; in both cases the controller is never called and exactly one
\* response is sent.  With the right token req.user is {id: 1, role: "admin"}
\* when the controller runs.
C16_AuthBeforeController ==
    \A i \in 1..Len(requests) :
        LET req == requests[i]
            h == Authorization(req)
            missing == ~startsWith(h, "Bearer ") \/ h = "Bearer "
            ran == {req.called[j] : j \in 1..Len(req.called)}
        IN  req.route \in UserRoutes =>
              /\ req.called # <<>> => req.called[1] = "auth"
              /\ "auth" \notin ran => req.responses = <<>> /\ req.user = Null
              /\ ("auth" \in ran /\ missing) =>
                    /\ req.responses = Sent(401, [error |-> "Missing token"])
                    /\ req.called = <<"auth">> /\ req.pc = "end"
                    /\ req.user = Null
              /\ ("auth" \in ran /\ ~missing /\ h # "Bearer secret-token") =>
                    /\ req.responses = Sent(403, [error |-> "Invalid token"])
                    /\ req.called = <<"auth">> /\ req.pc = "end"
                    /\ req.user = Null
              /\ ("auth" \in ran /\ h = "Bearer secret-token") =>
                    /\ req.user = [id |-> 1, role |-> "admin"]
                    /\ req.pc \in Controllers => req.responses = <<>>
              /\ ran \cap Controllers # {} =>
                    /\ h = "Bearer secret-token"
                    /\ req.called = <<"auth", Chain(req.route)[2]>>
                    /\ req.user = [id |-> 1, role |-> "admin"]
              /\ Len(req.responses) <= 1
              /\ req.pc = "end" => Len(req.responses) = 1

\* One request was refused with 403, another went through auth to listUsers,
\* which greeted the role that auth attached.
C16_Witness ==
    \E i, j \in 1..Len(requests) :
        /\ Authorization(requests[i]) = "Bearer wrong"
        /\ requests[i].responses = Sent(403, [error |-> "Invalid token"])
        /\ requests[j].called = <<"auth", "listUsers">>
        /\ Len(requests[j].responses) = 1
        /\ requests[j].responses[1].status = 200
        /\ requests[j].responses[1].body.message = "Hello admin, here are the users"

\* some /auth/google/callback request has exchanged its code successfully
Exchanged ==
    \E j \in 1..Len(requests) :
        /\ requests[j].route = "GET /auth/google/callback"
        /\ requests[j].tokens # Null

\* C17: tokens are stored for reuse.  POST /auth/google/create answers 400
\* "No stored tokens" exactly when there is no token file.  Once a callback
\* request has exchanged its code the file is written, before the
\* spreadsheet is asked for; it stays, whatever becomes of that spreadsheet,
\* and no later create request is answered 400 "No stored tokens".
C17_TokensStayStored ==
    /\ [](Exchanged => tokensFile # Null)
    /\ [][ /\ tokensFile # Null => tokensFile' # Null
           /\ \A i \in 1..Len(requests) :
                 createSpreadsheetFromStoredTokens(i) =>
                    /\ (requests'[i].responses = Sent(400, NoStoredTokens))
                          <=> (tokensFile = Null)
                    /\ Exchanged =>
                          requests'[i].responses # Sent(400, NoStoredTokens)
         ]_vars

\* The spreadsheet of a callback request failed after its code had been
\* exchanged, and a create request then ran on the tokens of that exchange.
C17_Witness ==
    \E i, j \in 1..Len(requests) :
        /\ requests[i].route = "GET /auth/google/callback"
        /\ requests[i].tokens = TokensFor("c1")
        /\ requests[i].responses = Sent(500, CallbackFailed)
        /\ requests[j].route = "POST /auth/google/create"
        /\ requests[j].tokens = TokensFor("c1")
        /\ requests[j].responses = Sent(200, SpreadsheetCreated)
        /\ tokensFile = JSONstringify(TokensFor("c1"))

\* C21: the sources of the list have pairwise distinct ids, so that an edit
\* or a removal addressed by id affects exactly one source.
C21_DistinctIds ==
    /\ [](\A i, j \in 1..Len(sources) :
             sources[i].id = sources[j].id => i = j)
    /\ [][ \A i \in 1..Len(sources) :
             /\ (sources' # sources /\
                   (ToggleReceived(i) \/ \E text \in TypedAmounts : EditAmount(i, text)))
                => \A j \in 1..Len(sources) : j # i => sources'[j] = sources[j]
             /\ (sources' # sources /\ removeSource(i, TRUE))
                => Len(sources') = Len(sources) - 1
         ]_vars

\* C22: showing a toast cancels the pending hide timer of the previous one.
\* At most one hide timer pends at any time, and it is the timer of the
\* toast on display: a timer pends exactly while a toast is shown, so no
\* toast is hidden by the timer of an earlier toast.
C22_OneHideTimer ==
    /\ timers <= 1
    /\ (timers = 1) <=> (toast # Null)

FixStep1Toast == [type |-> "error", message |-> "Fix Step 1 errors first."]

\* C23: a Save Step 1 attempted while the stage-1 error list is non-empty
\* changes neither the sources, the funds, the mode nor the snapshot; it
\* shows the error toast and nothing else.
C23_RejectedSaveHasNoEffect ==
    [][ (view.step1Errors # <<>> /\ saveStep1Local) =>
          /\ sources' = sources
          /\ funds' = funds
          /\ mode' = mode
          /\ doneSummary' = doneSummary
          /\ view' = view
          /\ toast' = FixStep1Toast
      ]_vars

\* A save has just been rejected while a snapshot was on display: the
\* snapshot is still there.
C23_Witness ==
    /\ toast = FixStep1Toast
    /\ view.step1Errors # <<>>
    /\ doneSummary # Null
    /\ \E i \in 1..Len(sources) : sources[i].received

\* C24: adding a source appends exactly one source, with received = false
\* and amount = "", at the end of the list and leaves the sources already
\* there, the funds, the mode and the snapshot as they were; totalIncome,
\* both error lists and canDone are the same before and after.  A cancelled
\* or empty prompt changes nothing.
C24_AddSourceAppendsOnly ==
    [][ \A answer \in PromptAnswers, now \in Times :
          addSource(answer, now) =>
             IF answer.cancelled \/ answer.text = ""
             THEN UNCHANGED vars
             ELSE /\ Len(sources') = Len(sources) + 1
                  /\ SubSeq(sources', 1, Len(sources)) = sources
                  /\ sources'[Len(sources')].name = answer.text
                  /\ ~sources'[Len(sources')].received
                  /\ sources'[Len(sources')].amount = ""
                  /\ funds' = funds
                  /\ mode' = mode
                  /\ doneSummary' = doneSummary
                  /\ view'.totalIncome = view.totalIncome
                  /\ view'.step1Errors = view.step1Errors
                  /\ view'.step2Errors = view.step2Errors
                  /\ view'.canDone = view.canDone
      ]_vars

\* A source has just been added beside a received source with income, while
\* a snapshot was on display.
C24_Witness ==
    /\ toast = [type |-> "success", message |-> "Added source: Maya"]
    /\ Len(sources) = MaxSources
    /\ sources[Len(sources)].name = "Maya"
    /\ ~sources[Len(sources)].received
    /\ view.totalIncome > 0
    /\ doneSummary # Null

\* the users whose id equals Number(:id)
Matching(req) ==
    {j \in 1..Len(USERS) :
        /\ Number(req.params.id).finite
        /\ Number(req.params.id).val = USERS[j].id * Unit}

\* C25: for an authenticated GET /api/users/:id, getUser answers 404 "User
\* not found" exactly when no user of the list has an id equal to
\* Number(:id), a non-numeric :id included, and otherwise answers with the
\* one user whose id matches; no request modifies the user list.
C25_GetUserFindsById ==
    /\ users = USERS
    /\ \A i \in 1..Len(requests) :
          LET req == requests[i]
          IN  (req.route = "GET /api/users/:id" /\ req.pc = "end"
                 /\ Authorization(req) = "Bearer secret-token") =>
                 /\ req.called = <<"auth", "getUser">>
                 /\ Matching(req) = {} =>
                       req.responses = Sent(404, [error |-> "User not found"])
                 /\ Matching(req) # {} =>
                       /\ Cardinality(Matching(req)) = 1
                       /\ \E j \in Matching(req) :
                             req.responses = Sent(200, [data |-> USERS[j]])

\* One request asked for a non-numeric id and got 404, another asked for
\* user 2 and got that user.
C25_Witness ==
    \E i, j \in 1..Len(requests) :
        /\ requests[i].params = [id |-> "abc"]
        /\ requests[i].responses = Sent(404, [error |-> "User not found"])
        /\ requests[j].params = [id |-> "2"]
        /\ requests[j].responses = Sent(200, [data |-> USERS[2]])

=============================================================================
